---- MODULE Spec2Model ----
(***************************************************************************)
(* Model of the session orchestration of the VoiceInteraction component    *)
(* (frontend/src/components/VoiceInteraction.tsx): the capture / playback  *)
(* flags, the dialogue requests in flight, the message log, the countdown  *)
(* timer with its interval handlers, and the active parallel-step set.     *)
(*                                                                         *)
(* One action is one event handler of the component together with the      *)
(* render it causes and the effects of that render (Commit).  Handlers     *)
(* registered once (mount effect, interval callback, a pending request's   *)
(* continuation) see the values of the render that created them; the model *)
(* keeps those captured values explicitly.                                 *)
(*                                                                         *)
(* The source tree holds a second revision of the component                *)
(* (unnamed/part_002) that also keeps a status per recipe step; the        *)
(* variable revision says which of the two is mounted.                     *)
(***************************************************************************)
EXTENDS Integers, Sequences, FiniteSets, TLC

(* ----------------------------- bounds ---------------------------------- *)
MaxLog == 2          \* messages kept in the log
MaxPending == 2      \* requests awaiting their response
MaxDuration == 2     \* longest countdown a response starts
MaxSteps == 3        \* steps of a fetched recipe
MaxTasks == 2        \* parallel tasks of a timer
MaxSeconds == 120    \* longest estimated time of a parallel task
MaxWords == 3        \* words of a message whose text the step effects read

(* ------------------------- program constants --------------------------- *)
Null == -999         \* the null of number | null state
NaN == -998          \* parseInt of a missing or non-numeric field
WarningAt == 20      \* remaining time at which the tick warns

States == {"initial_summary", "asking_servings", "asking_substitution",
           "ready_to_cook", "cooking"}

\* the revisions of the component in the source tree
Revisions == {"frontend", "part_002"}

\* the step statuses, in their order
StepStatus == <<"not_started", "in_progress", "completed">>

RecipeIds == {"r1", "r2"}
TextInputs == {"hi", " "}   \* what the user types or says
AssistantTexts == {"", "ok"}

VARIABLES
    isListening,        \* useState isListening
    isPlaying,          \* useState isPlaying
    currentState,       \* useState currentState
    currentStateRef,    \* useRef currentStateRef
    currentRecipeId,    \* useState currentRecipeId
    recipeIdProp,       \* prop recipeId (initialRecipeId)
    hasOnRecipeUpdate,  \* whether the prop onRecipeUpdate is supplied
    messages,           \* useState messages
    activeTimer,        \* useState activeTimer
    timeRemaining,      \* useState timeRemaining
    activeParallelSteps,\* useState activeParallelSteps
    intervals,          \* live window.setInterval handlers: id -> captured flags
    hasRecognition,     \* recognitionRef.current !== null
    engine,             \* speech recognition engine: idle, listening, stopping, ending
    audioPlaying,       \* the audio element is playing
    pending,            \* requests awaiting their response, with captured values
    revision,           \* which revision of the component is mounted
    stepStatuses,       \* useState stepStatuses (part_002): step -> status
    mounted,            \* the component is mounted (its effects are not cleaned up)
    objectUrls,         \* unreleased object URLs: the audio element's src, others
    cd,                 \* history: the countdown last started
    ev,                 \* history: what the last handler did
    input,              \* the value handed to a pure function of the component
    output              \* what the function made of it, <<>> before it ran

\* the state of the session
session == <<isListening, isPlaying, currentState, currentStateRef, currentRecipeId,
             recipeIdProp, hasOnRecipeUpdate, messages, activeTimer, timeRemaining,
             activeParallelSteps, intervals, hasRecognition, engine, audioPlaying,
             pending, revision, stepStatuses, mounted, objectUrls, cd, ev>>

vars == <<session, input, output>>

(* ------------------------------ helpers -------------------------------- *)
Last(s) == s[Len(s)]

Remove(f, k) == [x \in (DOMAIN f) \ {k} |-> f[x]]

\* String.prototype.trim, on the inputs of the model
Trim(t) == IF t = " " THEN "" ELSE t

\* an id window.setInterval has not handed out to a live handler
FreshId(ivs, at) == CHOOSE i \in 1..(Cardinality(DOMAIN ivs) + 2) : i \notin (DOMAIN ivs) \cup {at}

\* the flags a closure captured at its render
Flags(l, p) == [isListening |-> l, isPlaying |-> p]

\* the first render: what the handlers registered by the mount effect see
MountFlags == Flags(FALSE, FALSE)

(* response headers of the dialogue collaborator *)
ParallelTaskLists == {<<3>>}
NextStates == {"", "initial_summary", "cooking"}
UpdatedRecipeIds == {""}
\* the x-timer-data header: absent, or a payload that JSON.parse rejects
\* (json = "bad") or accepts
TimerHeaders ==
    {<<>>} \cup
    { <<[json |-> "ok", duration |-> d, step |-> 1, warning_time |-> 1, parallel_tasks |-> pt]>> :
        d \in 1..MaxDuration, pt \in {<<>>} \cup { <<l>> : l \in ParallelTaskLists } } \cup
    { <<[json |-> "ok", duration |-> d, step |-> 1, warning_time |-> 1, parallel_tasks |-> <<>>]>> :
        d \in {0, NaN} } \cup
    { <<[json |-> "bad", duration |-> NaN, step |-> 1, warning_time |-> 1, parallel_tasks |-> <<>>]>> }
Responses ==
    [nextState : NextStates,
     plays : {TRUE},
     updatedRecipeId : UpdatedRecipeIds,
     text : AssistantTexts,
     timerData : TimerHeaders]

(* ----------------------- capture and playback -------------------------- *)
\* startListening that does not look at recognitionRef.current
StartListeningUnchecked(cl, l, e) ==
    IF ~cl.isListening /\ ~cl.isPlaying
    THEN IF e = "idle"
         THEN [l |-> TRUE, e |-> "listening"]
         ELSE [l |-> l, e |-> e]
    ELSE [l |-> l, e |-> e]

\* startListening as created by a render whose flags are cl; l and e are the
\* capturing flag and the engine at the time of the call.  recognition.start()
\* throws unless the engine is idle (it has fired 'end' since its last start)
StartListening(cl, l, e) ==
    IF hasRecognition /\ ~cl.isListening /\ ~cl.isPlaying
    THEN IF e = "idle"
         THEN [l |-> TRUE, e |-> "listening"]
         ELSE [l |-> l, e |-> e]      \* recognition.start() throws, caught
    ELSE [l |-> l, e |-> e]

StopListening(cl, l, e) ==
    IF hasRecognition /\ cl.isListening
    THEN [l |-> FALSE, e |-> IF e = "listening" THEN "stopping" ELSE e]
    ELSE [l |-> l, e |-> e]

\* no object URL has been created
NoUrls == [src |-> FALSE, stale |-> FALSE]

\* URL.createObjectURL followed by audio.src = url: the URL the element held
\* before is not revoked and stays allocated
CreateObjectURL(urls) == [src |-> TRUE, stale |-> urls.stale \/ urls.src]

\* playAudioResponse as created by a render whose flags are cl; started says
\* whether audio.play() starts playback (its promise is rejected for a
\* payload that cannot be decoded or when the browser does not allow playback)
PlayAudioResponse(cl, l, e, started) ==
    LET s == IF cl.isListening THEN StopListening(cl, l, e) ELSE [l |-> l, e |-> e]
    IN [l |-> s.l, e |-> s.e, p |-> TRUE, audio |-> started,
        urls |-> CreateObjectURL(objectUrls)]

(* ------------------------------ effects -------------------------------- *)
\* TimerEffect without the cleanup the effect returns: the interval of the
\* previous run is never cleared
TimerEffectNoCleanup(old, new, at, ivs, fl) ==
    IF new = old THEN [tr |-> new, at |-> at, ivs |-> ivs]
    ELSE IF new # Null /\ new > 0
         THEN LET id == FreshId(ivs, at)
              IN [tr |-> new, at |-> id, ivs |-> (id :> fl) @@ ivs]
         ELSE [tr |-> Null, at |-> Null, ivs |-> ivs]

\* the timer effect, run after a render in which timeRemaining changed from
\* old to new; at is activeTimer, ivs the live intervals, fl the flags of the
\* render
TimerEffect(old, new, at, ivs, fl) ==
    LET cleaned == IF old # Null /\ old > 0 THEN Remove(ivs, at) ELSE ivs
    IN IF new = old THEN [tr |-> new, at |-> at, ivs |-> ivs]
       ELSE IF new # Null /\ new > 0
            THEN LET id == FreshId(cleaned, at)
                 IN [tr |-> new, at |-> id, ivs |-> (id :> fl) @@ cleaned]
            ELSE [tr |-> Null, at |-> Null, ivs |-> Remove(cleaned, at)]

\* the active parallel steps effect, run after a render in which messages or
\* timeRemaining changed
ParallelStepsEffect(msgs, tr, aps) ==
    IF Len(msgs) > 0
    THEN LET lastMessage == Last(msgs)
         IN IF lastMessage.timer # <<>> /\ lastMessage.timer[1].parallel_tasks # <<>>
            THEN lastMessage.timer[1].parallel_tasks[1]
            ELSE IF tr = Null \/ tr = 0 THEN <<>> ELSE aps
    ELSE aps

(* ------------------------ step statuses (part_002) -------------------- *)
\* useState<Record<string, string>>({})
NoStatuses == [k \in {} |-> "not_started"]

\* {...a, ...b}: the entries of b laid over those of a
Spread(a, b) ==
    [k \in (DOMAIN a) \cup (DOMAIN b) |-> IF k \in DOMAIN b THEN b[k] ELSE a[k]]

\* the status the dashboard shows for step n: stepStatuses[n] || 'not_started'
StatusOf(m, n) == IF n \in DOMAIN m THEN m[n] ELSE "not_started"

\* the step status effect, run after a render in which messages changed; prev
\* is the map the updater receives.  timer.step is a parseInt result, so
\* typeof timer.step === 'number' holds whenever there is a timer
StepStatusEffect(msgs, prev) ==
    IF Len(msgs) > 0
    THEN LET timer == Last(msgs).timer
         IN IF timer # <<>>
            THEN IF "step_statuses" \in DOMAIN timer[1]
                 THEN Spread(Spread(prev, timer[1].step_statuses),
                             timer[1].step :> "in_progress")
                 ELSE Spread(prev, timer[1].step :> "in_progress")
            ELSE prev
    ELSE prev

\* the states in which part_002 fetches the recipe steps
FetchStates == {"cooking", "ready_to_cook"}

\* addMessage that puts the entry in front of the log
addMessageFirst(msgs, type, content, timer) ==
    <<[type |-> type, content |-> content, timer |-> timer]>> \o msgs

\* the entry addMessage appends (its random id, timestamp and state tag are
\* not read by any handler and are left out)
addMessage(msgs, type, content, timer) ==
    Append(msgs, [type |-> type, content |-> content, timer |-> timer])

\* a request awaiting its response: what was sent, and the isListening its
\* continuation captured (read by playAudioResponse)
Request(kind, rid, transcript, state, cl) ==
    [kind |-> kind, recipeId |-> rid, transcript |-> transcript, state |-> state,
     cl |-> [isListening |-> cl.isListening]]

StepsRequest(rid) == Request("steps", rid, "", "", MountFlags)

DialogueKinds == {"bootstrap", "voice", "text", "init"}

\* history of the last handler, kept for the handlers the properties are about
\* (a submit, a settled request, a timer start or stop, a tick, a capture
\* error, the end of playback, a response): the toast it raised, the request
\* it settled, the value timeRemaining had before it and, for a response, the
\* headers its handler read
NoEvent == [kind |-> "none", toast |-> "", req |-> <<>>, was |-> Null, resp |-> <<>>]

Event(kind, toast, req, was) ==
    [kind |-> kind, toast |-> toast, req |-> req, was |-> was, resp |-> <<>>]

\* the event of a handled response: kind is what its timer data asked for
\* ("start", "stop") or "reply"; timerData tells whether the header was absent
\* ("none"), rejected by JSON.parse ("bad"), parsed to a duration that is not
\* a number ("malformed") or parsed to a number ("ok"); updatedRecipeId is
\* the x-updated-recipe-id the handler read ("" when absent or not read)
Reply(kind, req, was, nextState, text, timerData, updatedRecipeId) ==
    [kind |-> kind, toast |-> "", req |-> req, was |-> was,
     resp |-> <<[nextState |-> nextState, text |-> text, timerData |-> timerData,
                 updatedRecipeId |-> updatedRecipeId]>>]

\* history of the countdown last started: its total and warning threshold,
\* the remaining times at which the warning fired, how often it fired, and
\* how often the completion effect fired
NoCountdown == [total |-> 0, warn |-> 0, warnedAt |-> {}, warnings |-> 0, done |-> 0]

\* what the closures of the first render captured
MountRecipeId == "r1"
MountTimeRemaining == Null

(* ----------------------- render and its effects ------------------------ *)
\* The state a handler leaves (l, p, st, rid, prop, msgs, tr, e, aud, pend) is
\* rendered and the effects of the render run: the currentStateRef sync, the
\* recipe id sync, the active parallel steps effect, the timer effect and the
\* getRecipeSteps effect (frontend: when the recipe id changed; part_002: when
\* the recipe id or the state changed and the state is one of FetchStates) and,
\* in part_002, the step status effect.  ss is the step status map the handler
\* leaves.
CommitU(l, p, st, rid, prop, msgs, tr, e, aud, pend, ss, cdN, evN, urls) ==
    LET rid2 == IF prop # rid THEN prop ELSE rid
        gets == IF revision = "frontend"
                THEN (IF rid # currentRecipeId THEN <<StepsRequest(rid)>> ELSE <<>>)
                     \o (IF rid2 # rid THEN <<StepsRequest(rid2)>> ELSE <<>>)
                ELSE (IF (rid # currentRecipeId \/ st # currentState) /\ st \in FetchStates
                      THEN <<StepsRequest(rid)>> ELSE <<>>)
                     \o (IF rid2 # rid /\ st \in FetchStates
                         THEN <<StepsRequest(rid2)>> ELSE <<>>)
        te == TimerEffect(timeRemaining, tr, activeTimer, intervals, Flags(l, p))
    IN /\ mounted
       /\ Len(pend \o gets) <= MaxPending
       /\ Len(msgs) <= MaxLog
       /\ isListening' = l
       /\ isPlaying' = p
       /\ currentState' = st
       /\ currentStateRef' = st
       /\ currentRecipeId' = rid2
       /\ recipeIdProp' = prop
       /\ messages' = msgs
       /\ timeRemaining' = te.tr
       /\ activeTimer' = te.at
       /\ intervals' = te.ivs
       /\ activeParallelSteps' =
              IF msgs # messages \/ tr # timeRemaining
              THEN ParallelStepsEffect(msgs, tr, activeParallelSteps)
              ELSE activeParallelSteps
       /\ engine' = e
       /\ audioPlaying' = aud
       /\ pending' = pend \o gets
       /\ stepStatuses' =
              IF revision = "part_002" /\ msgs # messages
              THEN StepStatusEffect(msgs, ss)
              ELSE ss
       /\ cd' = cdN
       /\ ev' = evN
       /\ objectUrls' = urls
       /\ UNCHANGED <<hasOnRecipeUpdate, hasRecognition, revision, mounted, input, output>>

\* a handler that creates no object URL
CommitS(l, p, st, rid, prop, msgs, tr, e, aud, pend, ss, cdN, evN) ==
    CommitU(l, p, st, rid, prop, msgs, tr, e, aud, pend, ss, cdN, evN, objectUrls)

\* a handler that does not set the step statuses
Commit(l, p, st, rid, prop, msgs, tr, e, aud, pend, cdN, evN) ==
    CommitS(l, p, st, rid, prop, msgs, tr, e, aud, pend, stepStatuses, cdN, evN)

RemoveAt(s, i) == SubSeq(s, 1, i - 1) \o SubSeq(s, i + 1, Len(s))

(* ------------------------------- Init ---------------------------------- *)
\* no pure function is under study
NoInput == [kind |-> "none"]

\* after the first render and its effects: the bootstrap request and the
\* fetch of the recipe steps are in flight
Boot(callbacks, rev) ==
    /\ isListening = FALSE
    /\ isPlaying = FALSE
    /\ currentState = "initial_summary"
    /\ currentStateRef = "initial_summary"
    /\ currentRecipeId = MountRecipeId
    /\ recipeIdProp = MountRecipeId
    /\ hasOnRecipeUpdate \in callbacks
    /\ messages = <<>>
    /\ activeTimer = Null
    /\ timeRemaining = Null
    /\ activeParallelSteps = <<>>
    /\ intervals = <<>>
    /\ hasRecognition \in BOOLEAN
    /\ engine = "idle"
    /\ audioPlaying = FALSE
    /\ pending = <<Request("bootstrap", MountRecipeId, "", "initial_summary", MountFlags)>>
                 \o (IF rev = "frontend" THEN <<StepsRequest(MountRecipeId)>> ELSE <<>>)
    /\ revision = rev
    /\ stepStatuses = NoStatuses
    /\ mounted = TRUE
    /\ objectUrls = NoUrls
    /\ cd = NoCountdown
    /\ ev = NoEvent

\* RecipeImport always passes onRecipeUpdate
Init == Boot({TRUE}, "frontend") /\ input = NoInput /\ output = <<>>

(* ------------------------------ actions -------------------------------- *)
\* the microphone button: onClick={isListening ? stopListening : startListening}
MicClick ==
    /\ revision = "part_002" => ~isPlaying    \* part_002: isDisabled={isPlaying}
    /\ LET cl == Flags(isListening, isPlaying)
           r == IF isListening THEN StopListening(cl, isListening, engine)
                               ELSE StartListening(cl, isListening, engine)
       IN Commit(r.l, isPlaying, currentState, currentRecipeId, recipeIdProp, messages,
              timeRemaining, r.e, audioPlaying, pending, cd,
              NoEvent)

\* handleVoiceInput of the first render, up to its await
HandleVoiceInput(t) ==
    [msgs |-> addMessage(messages, "user", t, <<>>),
     p |-> TRUE,
     pend |-> Append(pending, Request("voice", MountRecipeId, t, currentStateRef,
                                      MountFlags))]

\* recognition.onresult
RecognitionResult(t) ==
    /\ engine \in {"listening", "stopping"}
    /\ LET h == HandleVoiceInput(t)
       IN Commit(isListening, h.p, currentState, currentRecipeId, recipeIdProp, h.msgs,
                 timeRemaining, "ending", audioPlaying, h.pend, cd,
                 Event("submit", "", <<>>, timeRemaining))

\* recognition.onerror that restarts capture after every error
RecognitionErrorRestarts(err, restartable) ==
    /\ engine = "listening"
    /\ LET r == StartListening(MountFlags, FALSE, IF restartable THEN "idle" ELSE "ending")
       IN Commit(r.l, isPlaying, currentState, currentRecipeId, recipeIdProp, messages,
                 timeRemaining, r.e, audioPlaying, pending, cd,
                 Event("error", IF err = "no-speech" THEN "" ELSE "speech", <<>>,
                       timeRemaining))

\* recognition.onerror.  The engine has fired 'error' but not yet 'end' when the
\* handler runs; whether recognition.start() is accepted at that point is up to
\* the browser (restartable): some regard the session as over once 'error' has
\* fired, others throw InvalidStateError until 'end' has fired
RecognitionError(err, restartable) ==
    /\ engine = "listening"
    /\ LET r == IF err = "no-speech"
                THEN StartListening(MountFlags, FALSE, IF restartable THEN "idle" ELSE "ending")
                ELSE [l |-> FALSE, e |-> "ending"]
       IN Commit(r.l, isPlaying, currentState, currentRecipeId, recipeIdProp, messages,
                 timeRemaining, r.e, audioPlaying, pending, cd,
                 Event("error", IF err = "no-speech" THEN "" ELSE "speech", <<>>,
                       timeRemaining))

\* recognition.onend
RecognitionEnd ==
    /\ engine \in {"stopping", "ending"}
    /\ Commit(FALSE, isPlaying, currentState, currentRecipeId, recipeIdProp, messages,
              timeRemaining, "idle", audioPlaying, pending, cd,
              NoEvent)

\* handleTextSubmit up to its await
HandleTextSubmit(t) ==
    [msgs |-> addMessage(messages, "user", t, <<>>),
     p |-> TRUE,
     pend |-> Append(pending, Request("text", currentRecipeId, t, currentStateRef,
                                      Flags(isListening, isPlaying)))]

TextSubmit(t) ==
    /\ Trim(t) # ""
    /\ LET h == HandleTextSubmit(t)
       IN Commit(isListening, h.p, currentState, currentRecipeId, recipeIdProp, h.msgs,
                 timeRemaining, engine, audioPlaying, h.pend, cd,
                 Event("submit", "", <<>>, timeRemaining))

\* ParseTimer that turns a payload JSON.parse rejects into a timer of NaNs
ParseTimerNoCatch(kind, hdr) ==
    IF Len(hdr) = 0 THEN <<>>
    ELSE <<[duration |-> hdr[1].duration, step |-> hdr[1].step,
            warning_time |-> hdr[1].warning_time,
            parallel_tasks |-> IF kind = "voice" THEN hdr[1].parallel_tasks ELSE <<>>]>>

\* the timer built from the x-timer-data header (handleVoiceInput keeps the
\* parallel tasks, handleTextSubmit does not); <<>> when there is none
ParseTimer(kind, hdr) ==
    IF Len(hdr) = 0 THEN <<>>
    ELSE IF hdr[1].json = "bad" THEN <<>>
    ELSE <<[duration |-> hdr[1].duration, step |-> hdr[1].step,
            warning_time |-> hdr[1].warning_time,
            parallel_tasks |-> IF kind = "voice" THEN hdr[1].parallel_tasks ELSE <<>>]>>

\* TimerSignal that ignores the stop signal
TimerSignalNoStop(timer, tr) ==
    IF Len(timer) = 0 THEN tr
    ELSE IF timer[1].duration > 0 THEN timer[1].duration ELSE tr

\* the value the response handler gives timeRemaining
TimerSignal(timer, tr) ==
    IF Len(timer) = 0 THEN tr
    ELSE IF timer[1].duration > 0 THEN timer[1].duration ELSE Null

\* what the timer data of a response asks for
TimerRequest(timer) ==
    IF Len(timer) = 0 THEN "none"
    ELSE IF timer[1].duration = NaN THEN "malformed"
    ELSE IF timer[1].duration > 0 THEN "start" ELSE "stop"

\* StateTransition that never leaves the current state
StateTransitionNever(nextState, stRef, st) == st

\* the state transition of a response: the state the handler leaves
StateTransition(nextState, stRef, st) ==
    IF nextState # "" /\ nextState # stRef THEN nextState ELSE st

\* the continuation of handleVoiceInput / handleTextSubmit
SubmitResponse(i, resp) ==
    /\ i \in 1..Len(pending)
    /\ pending[i].kind \in {"voice", "text"}
    /\ LET r == pending[i]
           rid == IF resp.updatedRecipeId # "" THEN resp.updatedRecipeId ELSE currentRecipeId
           prop == IF resp.updatedRecipeId # "" /\ hasOnRecipeUpdate
                   THEN resp.updatedRecipeId ELSE recipeIdProp
           timer == ParseTimer(r.kind, resp.timerData)
           tr == TimerSignal(timer, timeRemaining)
           msgs == IF resp.text # ""
                   THEN addMessage(messages, "assistant", resp.text, timer)
                   ELSE messages
           st == StateTransition(resp.nextState, currentStateRef, currentState)
           play == PlayAudioResponse(r.cl, isListening, engine, resp.plays)
           what == TimerRequest(timer)
           cdN == IF what = "start"
                  THEN [total |-> timer[1].duration, warn |-> timer[1].warning_time,
                        warnedAt |-> {}, warnings |-> 0, done |-> 0]
                  ELSE cd
       IN CommitU(play.l, play.p, st, rid, prop, msgs, tr, play.e, play.audio,
                  RemoveAt(pending, i), stepStatuses, cdN,
                  IF what \in {"start", "stop"}
                  THEN Reply(what, <<r>>, timeRemaining, resp.nextState, resp.text, "ok",
                             resp.updatedRecipeId)
                  ELSE Reply("reply", <<>>, Null, resp.nextState, resp.text,
                             IF resp.timerData = <<>> THEN "none"
                             ELSE IF resp.timerData[1].json = "bad" THEN "bad"
                             ELSE "malformed",
                             resp.updatedRecipeId),
                  play.urls)

\* a continuation of getRecipeSummary that logs the empty transcript as a
\* user turn
BootstrapResponseUserTurn(i, resp) ==
    /\ i \in 1..Len(pending)
    /\ pending[i].kind = "bootstrap"
    /\ LET r == pending[i]
           st == IF resp.nextState # "" THEN resp.nextState ELSE currentState
           msgs == addMessage(messages, "user", r.transcript, <<>>)
           play == PlayAudioResponse(r.cl, isListening, engine, resp.plays)
       IN CommitU(play.l, play.p, st, currentRecipeId, recipeIdProp, msgs, timeRemaining,
                  play.e, play.audio, RemoveAt(pending, i), stepStatuses, cd,
                  Reply("reply", <<>>, Null, resp.nextState, resp.text, "none", ""),
                  play.urls)

\* the continuation of getRecipeSummary
BootstrapResponse(i, resp) ==
    /\ i \in 1..Len(pending)
    /\ pending[i].kind = "bootstrap"
    /\ LET r == pending[i]
           st == IF resp.nextState # "" THEN resp.nextState ELSE currentState
           msgs == IF resp.text # ""
                   THEN addMessage(messages, "assistant", resp.text, <<>>)
                   ELSE messages
           play == PlayAudioResponse(r.cl, isListening, engine, resp.plays)
       IN CommitU(play.l, play.p, st, currentRecipeId, recipeIdProp, msgs, timeRemaining,
                  play.e, play.audio, RemoveAt(pending, i), stepStatuses, cd,
                  Reply("reply", <<>>, Null, resp.nextState, resp.text, "none", ""),
                  play.urls)

\* the metadata of a fetched recipe: step_statuses absent or a map
StatusMaps == {1 :> "not_started", 1 :> "completed"}
RecipeMetadata == [step_statuses : {<<>>} \cup { <<m>> : m \in StatusMaps }]

\* StepsResponse that starts the session over for the fetched recipe
StepsResponseRestarts(i, meta) ==
    /\ i \in 1..Len(pending)
    /\ pending[i].kind = "steps"
    /\ LET r == pending[i]
           init == Request("init", r.recipeId, "initialize parallel tasks",
                           currentStateRef, MountFlags)
       IN CommitS(isListening, isPlaying, "initial_summary", currentRecipeId, recipeIdProp,
                  <<>>, Null, engine, audioPlaying,
                  Append(RemoveAt(pending, i), init), stepStatuses, cd, NoEvent)

\* getRecipeSteps after axios.get resolved: part_002 replaces the step
\* statuses by those of the metadata, the steps are stored and the
\* "initialize parallel tasks" request is posted
StepsResponse(i, meta) ==
    /\ i \in 1..Len(pending)
    /\ pending[i].kind = "steps"
    /\ LET r == pending[i]
           init == Request("init", r.recipeId, "initialize parallel tasks",
                           currentStateRef, MountFlags)
           ss == IF revision = "part_002" /\ meta.step_statuses # <<>>
                 THEN meta.step_statuses[1] ELSE stepStatuses
       IN CommitS(isListening, isPlaying, currentState, currentRecipeId, recipeIdProp,
                  messages, timeRemaining, engine, audioPlaying,
                  Append(RemoveAt(pending, i), init), ss, cd, NoEvent)

\* getRecipeSteps after its axios.post resolved: the response is not used
InitResponse(i) ==
    /\ i \in 1..Len(pending)
    /\ pending[i].kind = "init"
    /\ Commit(isListening, isPlaying, currentState, currentRecipeId, recipeIdProp,
              messages, timeRemaining, engine, audioPlaying, RemoveAt(pending, i), cd,
              NoEvent)

\* RequestFail whose catch block also resets the timer
RequestFailResetsTimer(i) ==
    /\ i \in 1..Len(pending)
    /\ LET r == pending[i]
       IN Commit(isListening, FALSE, currentState, currentRecipeId, recipeIdProp,
                 messages, Null, engine, audioPlaying, RemoveAt(pending, i), cd,
                 Event("fail", "request", <<r>>, timeRemaining))

\* a request rejects: the catch block of its caller
RequestFail(i) ==
    /\ i \in 1..Len(pending)
    /\ LET r == pending[i]
           p == IF r.kind \in {"voice", "text"} THEN FALSE ELSE isPlaying
           toast == IF r.kind \in {"voice", "text"} THEN "request"
                    ELSE IF r.kind = "bootstrap" THEN "summary" ELSE ""
       IN Commit(isListening, p, currentState, currentRecipeId, recipeIdProp,
                 messages, timeRemaining, engine, audioPlaying, RemoveAt(pending, i), cd,
                 Event("fail", toast, <<r>>, timeRemaining))

\* HandleAudioEnd that starts capture in every conversation state
HandleAudioEndAnyState(stRef, tr) ==
    IF tr = Null \/ tr = 0
    THEN StartListening(MountFlags, isListening, engine)
    ELSE [l |-> isListening, e |-> engine]

\* handleAudioEnd of the first render: stRef is currentStateRef.current, tr the
\* timeRemaining that render saw
HandleAudioEnd(stRef, tr) ==
    IF stRef # "initial_summary" /\ (tr = Null \/ tr = 0)
    THEN StartListening(MountFlags, isListening, engine)
    ELSE [l |-> isListening, e |-> engine]

\* the 'ended' event of the audio element
AudioEnded ==
    /\ audioPlaying
    /\ LET h == HandleAudioEnd(currentStateRef, MountTimeRemaining)
       IN Commit(h.l, FALSE, currentState, currentRecipeId, recipeIdProp, messages,
                 timeRemaining, h.e, FALSE, pending, cd,
                 Event("ended", "", <<>>, timeRemaining))

\* TickUpdater that completes on newTime < 0 instead of newTime <= 0
TickUpdaterLate(prev) ==
    IF prev = Null THEN [tr |-> Null, warned |-> FALSE, completed |-> FALSE]
    ELSE LET newTime == prev - 1
         IN [tr |-> IF newTime < 0 THEN Null ELSE newTime,
             warned |-> (newTime = WarningAt),
             completed |-> (newTime < 0)]

\* the updater the interval callback passes to setTimeRemaining
TickUpdater(prev) ==
    IF prev = Null THEN [tr |-> Null, warned |-> FALSE, completed |-> FALSE]
    ELSE LET newTime == prev - 1
         IN [tr |-> IF newTime <= 0 THEN Null ELSE newTime,
             warned |-> (newTime = WarningAt),
             completed |-> (newTime <= 0)]

\* a firing of the interval handler whose updater returns the time it was given
TickKeeps(id) ==
    /\ id \in DOMAIN intervals
    /\ Commit(isListening, isPlaying, currentState, currentRecipeId, recipeIdProp, messages,
              timeRemaining, engine, audioPlaying, pending, cd,
              Event("tick", "", <<>>, timeRemaining))

\* one firing of the interval handler id
Tick(id) ==
    /\ id \in DOMAIN intervals
    /\ LET u == TickUpdater(timeRemaining)
           s == IF u.completed THEN StartListening(intervals[id], isListening, engine)
                ELSE [l |-> isListening, e |-> engine]
           cdN == [cd EXCEPT !.warnedAt = IF u.warned THEN @ \cup {timeRemaining - 1} ELSE @,
                             !.warnings = IF u.warned /\ @ < 2 THEN @ + 1 ELSE @,
                             !.done = IF u.completed /\ @ < 2 THEN @ + 1 ELSE @]
       IN Commit(s.l, isPlaying, currentState, currentRecipeId, recipeIdProp, messages,
                 u.tr, s.e, audioPlaying, pending, cdN,
                 Event("tick", IF u.completed THEN "complete"
                               ELSE IF u.warned THEN "warning" ELSE "", <<>>, timeRemaining))

\* every handler, with the responses of the dialogue collaborator drawn from R
Step(R) ==
    \/ MicClick
    \/ \E t \in TextInputs : RecognitionResult(t)
    \/ \E err \in {"no-speech", "audio-capture"}, restartable \in BOOLEAN :
           RecognitionError(err, restartable)
    \/ RecognitionEnd
    \/ \E t \in TextInputs : TextSubmit(t)
    \/ \E i \in 1..MaxPending, resp \in R : SubmitResponse(i, resp)
    \/ \E i \in 1..MaxPending, resp \in R : BootstrapResponse(i, resp)
    \/ \E i \in 1..MaxPending, meta \in RecipeMetadata : StepsResponse(i, meta)
    \/ \E i \in 1..MaxPending : InitResponse(i)
    \/ \E i \in 1..MaxPending : RequestFail(i)
    \/ AudioEnded
    \/ \E id \in DOMAIN intervals : Tick(id)

Next == Step(Responses)

Spec == Init /\ [][Next]_vars

\* a live interval handler fires
Ticking == \E id \in DOMAIN intervals : Tick(id)

\* responses that start a countdown of 1..MaxDuration seconds, stop it or
\* carry no timer data
CountdownResponses ==
    [nextState : {""},
     plays : {TRUE},
     updatedRecipeId : UpdatedRecipeIds,
     text : AssistantTexts,
     timerData : {<<>>} \cup
                 { <<[json |-> "ok", duration |-> d, step |-> 1, warning_time |-> 1,
                      parallel_tasks |-> <<>>]>> : d \in 0..MaxDuration }]

CountdownNext == Step(CountdownResponses)

\* the session with a browser that keeps firing a live interval handler
CountdownSpec == Init /\ [][CountdownNext]_vars /\ WF_vars(Ticking)

(* ------------------- playback failure and reset ------------------------ *)
\* responses whose audio the browser plays or refuses to play
SessionResponses ==
    [nextState : {""},
     plays : BOOLEAN,
     updatedRecipeId : {""},
     text : AssistantTexts,
     timerData : {<<>>,
                  <<[json |-> "ok", duration |-> 1, step |-> 1, warning_time |-> 1,
                     parallel_tasks |-> <<>>]>>}]

\* handleReset of RecipeImport: importedRecipe becomes null and VoiceInteraction
\* is unmounted.  The cleanup of the timer effect clears the interval; the
\* cleanup of the mount effect aborts the recognition, removes the 'ended'
\* listener, pauses the audio element and revokes the URL in its src.  The
\* requests in flight are not cancelled and the state of the component is no
\* longer rendered
Reset ==
    /\ mounted
    /\ mounted' = FALSE
    /\ intervals' = <<>>
    /\ engine' = "idle"
    /\ audioPlaying' = FALSE
    /\ objectUrls' = [objectUrls EXCEPT !.src = FALSE]
    /\ ev' = Event("reset", "", <<>>, timeRemaining)
    /\ UNCHANGED <<isListening, isPlaying, currentState, currentStateRef, currentRecipeId,
                   recipeIdProp, hasOnRecipeUpdate, messages, activeTimer, timeRemaining,
                   activeParallelSteps, hasRecognition, pending, revision, stepStatuses,
                   cd, input, output>>

\* the continuation of handleVoiceInput, handleTextSubmit or getRecipeSummary
\* after the component was unmounted: the state setters do nothing, no effect
\* runs, and playAudioResponse runs on the audio element audioRef still holds
LateResponse(i, resp) ==
    /\ ~mounted
    /\ i \in 1..Len(pending)
    /\ pending[i].kind \in {"voice", "text", "bootstrap"}
    /\ LET r == pending[i]
           play == PlayAudioResponse(r.cl, isListening, engine, resp.plays)
       IN /\ engine' = play.e
          /\ audioPlaying' = play.audio
          /\ objectUrls' = play.urls
          /\ pending' = RemoveAt(pending, i)
          /\ ev' = Event("late", "", <<r>>, timeRemaining)
    /\ UNCHANGED <<isListening, isPlaying, currentState, currentStateRef, currentRecipeId,
                   recipeIdProp, hasOnRecipeUpdate, messages, activeTimer, timeRemaining,
                   activeParallelSteps, intervals, hasRecognition, revision, stepStatuses,
                   mounted, cd, input, output>>

\* after the component was unmounted a request is rejected (its catch block
\* sets state, which does nothing) or a request of getRecipeSteps is answered
\* (the "initialize parallel tasks" request follows the fetch of the steps)
LateSettle(i) ==
    /\ ~mounted
    /\ i \in 1..Len(pending)
    /\ LET r == pending[i]
       IN /\ pending' = IF r.kind = "steps"
                        THEN Append(RemoveAt(pending, i),
                                    Request("init", r.recipeId, "initialize parallel tasks",
                                            currentStateRef, MountFlags))
                        ELSE RemoveAt(pending, i)
          /\ ev' = Event("late", "", <<r>>, timeRemaining)
    /\ UNCHANGED <<isListening, isPlaying, currentState, currentStateRef, currentRecipeId,
                   recipeIdProp, hasOnRecipeUpdate, messages, activeTimer, timeRemaining,
                   activeParallelSteps, intervals, hasRecognition, engine, audioPlaying,
                   revision, stepStatuses, mounted, objectUrls, cd, input, output>>

\* the playback a late response started on the detached audio element ends:
\* its 'ended' listener was removed
LateAudioEnded ==
    /\ ~mounted
    /\ audioPlaying
    /\ audioPlaying' = FALSE
    /\ ev' = Event("ended", "", <<>>, timeRemaining)
    /\ UNCHANGED <<isListening, isPlaying, currentState, currentStateRef, currentRecipeId,
                   recipeIdProp, hasOnRecipeUpdate, messages, activeTimer, timeRemaining,
                   activeParallelSteps, intervals, hasRecognition, engine, pending,
                   revision, stepStatuses, mounted, objectUrls, cd, input, output>>

SessionNext ==
    \/ Step(SessionResponses)
    \/ Reset
    \/ \E i \in 1..MaxPending, resp \in SessionResponses : LateResponse(i, resp)
    \/ \E i \in 1..MaxPending : LateSettle(i)
    \/ LateAudioEnded

\* the session from its mount to its reset and the settling of the requests
\* then in flight
SessionSpec == Init /\ [][SessionNext]_vars

(* ------------------------ the part_002 revision ------------------------ *)
\* the x-timer-data header with the step_statuses the collaborator may send
StatusTimerHeaders ==
    {<<>>} \cup
    { <<[json |-> "ok", duration |-> d, step |-> 1, warning_time |-> 1,
         parallel_tasks |-> <<>>, step_statuses |-> m]>> :
        d \in {0, 1}, m \in {<<>>} \cup { <<x>> : x \in StatusMaps } }

StatusResponses ==
    [nextState : {"", "cooking"},
     plays : {TRUE},
     updatedRecipeId : UpdatedRecipeIds,
     text : AssistantTexts,
     timerData : StatusTimerHeaders]

StatusInit == Boot({TRUE}, "part_002") /\ input = NoInput /\ output = <<>>

StatusNext == Step(StatusResponses)

StatusSpec == StatusInit /\ [][StatusNext]_vars

(* ------------- the session with a collaborator that swaps recipes ------ *)
\* responses that may name another recipe in x-updated-recipe-id
RecipeTimerHeaders ==
    {<<>>,
     <<[json |-> "ok", duration |-> 1, step |-> 1, warning_time |-> 1,
        parallel_tasks |-> <<>>]>>}

RecipeResponses ==
    [nextState : {"", "cooking"},
     plays : {TRUE},
     updatedRecipeId : {"", "r2"},
     text : AssistantTexts,
     timerData : RecipeTimerHeaders]

\* the component mounted with or without the optional onRecipeUpdate prop
RecipeInit == Boot(BOOLEAN, "frontend") /\ input = NoInput /\ output = <<>>

RecipeNext == Step(RecipeResponses)

RecipeSpec == RecipeInit /\ [][RecipeNext]_vars

(* --------------- pure functions: step processing and display ----------- *)
\* the sequences without repetition over the set S (arrays of distinct items)
Arrays(S) ==
    { q \in UNION { [1..n -> S] : n \in 0..Cardinality(S) } :
        \A a, b \in DOMAIN q : q[a] = q[b] => a = b }

\* a parallel_with field of step k, absent (<<>>) or a list (<<list>>) of
\* steps other than k, from a choice c over the steps 1..MaxSteps - 1
Declared(k, c) ==
    IF c = <<>> THEN <<>>
    ELSE <<[a \in 1..Len(c[1]) |-> IF c[1][a] < k THEN c[1][a] ELSE c[1][a] + 1]>>

\* the steps of a fetched recipe, numbered 1..MaxSteps, each without a
\* parallel_with field or with a list, possibly empty, of other steps
StepLists ==
    { [k \in 1..MaxSteps |-> [step |-> k, parallel_with |-> Declared(k, pw[k])]] :
        pw \in [1..MaxSteps -> {<<>>} \cup { <<l>> : l \in Arrays(1..(MaxSteps - 1)) }] }

\* Array.prototype.includes
Includes(list, x) == \E k \in 1..Len(list) : list[k] = x

\* steps.map(...) of getRecipeSteps: a step that has a parallel_with field is
\* returned as it is; another gets the steps that list it, or no field when
\* none does
processedSteps(steps) ==
    [i \in 1..Len(steps) |->
        LET step == steps[i]
            listing == SelectSeq(steps, LAMBDA x : x.parallel_with # <<>>
                                                  /\ Includes(x.parallel_with[1], step.step))
            parallelWith == [k \in 1..Len(listing) |-> listing[k].step]
        IN IF step.parallel_with # <<>>
           THEN step
           ELSE [step EXCEPT !.parallel_with = IF Len(parallelWith) > 0
                                               THEN <<parallelWith>> ELSE <<>>]]

\* the instruction of the task for a step
Instruction(n) == IF n = 2 THEN "Chop garlic and parsley" ELSE "Heat olive oil in a pan"

\* a list of n parallel tasks for the steps 2, 4, ...: the first takes s
\* seconds and every other one u seconds
TaskList(n, s, u) ==
    [k \in 1..n |-> [step_number |-> 2 * k, instruction |-> Instruction(2 * k),
                     estimated_time |-> IF k = 1 THEN s ELSE u]]

TaskLists ==
    { TaskList(n, s, u) : n \in 2..MaxTasks, s \in 0..MaxSeconds, u \in 0..MaxSeconds }
    \cup { TaskList(1, s, 0) : s \in 0..MaxSeconds } \cup { <<>> }

\* the messages handed to MessageBubble: without a timer, with a timer that
\* has no parallel_tasks field (<<>>), and with one that has a list (<<list>>)
BubbleMessages ==
    { [type |-> "assistant", content |-> "ok", timer |-> t] :
        t \in {<<>>} \cup
              { <<[duration |-> 1, step |-> 1, warning_time |-> 1, parallel_tasks |-> pt]>> :
                  pt \in {<<>>} \cup { <<l>> : l \in TaskLists } } }

\* estTimeStr always written with its minutes
estTimeStrMinutes(estTime) ==
    ToString(estTime \div 60) \o "m " \o ToString(estTime % 60) \o "s"

\* estTimeStr of the recommended task
estTimeStr(estTime) ==
    LET estMinutes == estTime \div 60
        estSeconds == estTime % 60
    IN IF estMinutes > 0
       THEN ToString(estMinutes) \o "m " \o ToString(estSeconds) \o "s"
       ELSE ToString(estSeconds) \o "s"

\* taskTimeStr of another task
taskTimeStr(taskTime) ==
    LET taskMinutes == taskTime \div 60
        taskSeconds == taskTime % 60
    IN IF taskMinutes > 0
       THEN ToString(taskMinutes) \o "m " \o ToString(taskSeconds) \o "s"
       ELSE ToString(taskSeconds) \o "s"

\* ParallelTasksDisplay that renders the recommended task only
ParallelTasksDisplayFirst(tasks) ==
    IF Len(tasks) = 0 THEN <<>>
    ELSE <<[heading |-> "Available Tasks While Timer is Running",
            recommended |-> [step_number |-> tasks[1].step_number,
                             instruction |-> tasks[1].instruction,
                             time |-> estTimeStr(tasks[1].estimated_time)],
            others |-> <<>>]>>

\* what ParallelTasksDisplay renders: nothing (<<>>) for an empty list, else
\* the heading, the first task as the recommended one and the other tasks,
\* each as "Step {step_number}: {instruction}" and "Estimated time: {time}"
ParallelTasksDisplay(tasks) ==
    IF Len(tasks) = 0 THEN <<>>
    ELSE <<[heading |-> "Available Tasks While Timer is Running",
            recommended |-> [step_number |-> tasks[1].step_number,
                             instruction |-> tasks[1].instruction,
                             time |-> estTimeStr(tasks[1].estimated_time)],
            others |-> IF Len(tasks) > 1
                       THEN [k \in 1..(Len(tasks) - 1) |->
                                [step_number |-> tasks[k + 1].step_number,
                                 instruction |-> tasks[k + 1].instruction,
                                 time |-> taskTimeStr(tasks[k + 1].estimated_time)]]
                       ELSE <<>>]>>

\* what MessageBubble renders below the text of a message: nothing without a
\* timer, else the timer display and, for a non-empty parallel_tasks list,
\* the parallel tasks
MessageBubble(message) ==
    [content |-> message.content,
     timer |-> IF message.timer # <<>>
               THEN <<[duration |-> message.timer[1].duration,
                       tasks |-> IF message.timer[1].parallel_tasks # <<>>
                                    /\ Len(message.timer[1].parallel_tasks[1]) > 0
                                 THEN ParallelTasksDisplay(message.timer[1].parallel_tasks[1])
                                 ELSE <<>>]>>
               ELSE <<>>]

\* the steps of a recipe arrive and are processed
ProcessSteps ==
    /\ input.kind = "steps"
    /\ output = <<>>
    /\ output' = <<processedSteps(input.steps)>>
    /\ UNCHANGED <<session, input>>

\* a message is rendered
RenderMessage ==
    /\ input.kind = "message"
    /\ output = <<>>
    /\ output' = <<MessageBubble(input.message)>>
    /\ UNCHANGED <<session, input>>

\* the words a message text is made of, separated by single spaces
Words == {"completed", "Completed", "step", "Step", "3", "3:", "now"}

\* the texts of up to MaxWords words
Texts == UNION { [1..n -> Words] : n \in 0..MaxWords }

\* String.prototype.toLowerCase, word by word
toLowerCase(t) ==
    [k \in 1..Len(t) |-> IF t[k] = "Completed" THEN "completed"
                         ELSE IF t[k] = "Step" THEN "step" ELSE t[k]]

\* the number a word starts with, as (\d+) captures and parseInt reads it
Digits(w) == IF w \in {"3", "3:"} THEN <<3>> ELSE <<>>

\* the positions of t where the word w is followed by a word that starts with
\* digits (colon says whether a colon must follow the digits)
Matches(t, w, colon) ==
    { k \in 1..(Len(t) - 1) :
        /\ t[k] = w
        /\ Digits(t[k + 1]) # <<>>
        /\ colon => t[k + 1] = "3:" }

\* the least element of a non-empty set of positions: the first match
First(S) == CHOOSE k \in S : \A j \in S : k <= j

\* the completed steps effect, run after a render in which messages changed
CompletedStepsEffect(msgs, completedSteps) ==
    IF Len(msgs) = 0 THEN completedSteps
    ELSE LET lastMessage == Last(msgs)
             lower == toLowerCase(lastMessage.content)
             stepMatch == Matches(lower, "step", FALSE)
         IN IF Includes(lower, "completed") /\ stepMatch # {}
            THEN Append(completedSteps, Digits(lower[First(stepMatch) + 1])[1])
            ELSE completedSteps

\* the current step effect, run after a render in which messages changed
CurrentStepEffect(msgs, currentStepNumber) ==
    IF Len(msgs) = 0 THEN currentStepNumber
    ELSE LET lastMessage == Last(msgs)
             stepMatch == Matches(lastMessage.content, "Step", TRUE)
         IN IF lastMessage.type = "assistant" /\ stepMatch # {}
            THEN Digits(lastMessage.content[First(stepMatch) + 1])[1]
            ELSE currentStepNumber

\* a message is appended to the log and the step effects run
LogMessage ==
    /\ input.kind = "log"
    /\ output = <<>>
    /\ LET msgs == addMessage(<<>>, input.type, input.content, <<>>)
       IN output' = <<[completedSteps |->
                          CompletedStepsEffect(msgs, input.completedSteps),
                       currentStepNumber |->
                          CurrentStepEffect(msgs, input.currentStepNumber)]>>
    /\ UNCHANGED <<session, input>>

DisplayInit ==
    /\ Boot({TRUE}, "frontend")
    /\ input \in { [kind |-> "steps", steps |-> x] : x \in StepLists }
                 \cup { [kind |-> "message", message |-> m] : m \in BubbleMessages }
                 \cup { [kind |-> "log", type |-> ty, content |-> t,
                         completedSteps |-> cs, currentStepNumber |-> n] :
                          ty \in {"user", "assistant"}, t \in Texts,
                          cs \in {<<>>, <<1>>}, n \in {0, 1} }
    /\ output = <<>>

DisplayNext == ProcessSteps \/ RenderMessage \/ LogMessage

DisplaySpec == DisplayInit /\ [][DisplayNext]_vars

(* ---------------------------- properties ------------------------------- *)
SubmitKinds == {"voice", "text"}

Outstanding(kinds) == {k \in 1..Len(pending) : pending[k].kind \in kinds}

Completed == ev.kind = "tick" /\ ev.toast = "complete"

\* C1: in every reachable state the flags capturing (isListening) and playing
\* (isPlaying) are not both true.
C1_MutualExclusion == ~(isListening /\ isPlaying)

\* C2: a submit (spoken or typed) made while the bootstrap request or an
\* earlier submit has not resolved sends no request and leaves the MessageLog
\* and the conversation state as they were.
C2_RequestInFlight ==
    [][(Outstanding(SubmitKinds \cup {"bootstrap"}) # {} /\ ev'.kind = "submit")
        => (pending' = pending /\ messages' = messages /\ currentState' = currentState)]_vars

\* C3: in every reachable state at most one request to the dialogue
\* collaborator is outstanding (bootstrap, voice and text submits, and the
\* request posted after the recipe steps were fetched).
C3_OneOutstanding == Cardinality(Outstanding(DialogueKinds)) <= 1

\* C4 as stated: when the request of a submit fails, a notification is raised
\* and the log, the conversation state and the timer are as they were before
\* that submit (here for a failure that directly follows the submit: the log
\* before the submit is the log without its last entry).
C4_SubmitLeftNoTrace ==
    [][(ev.kind = "submit" /\ ev'.kind = "fail" /\ ev'.req = <<Last(pending)>>
          /\ Last(pending).kind \in SubmitKinds)
        => (/\ ev'.toast = "request"
            /\ messages' = SubSeq(messages, 1, Len(messages) - 1)
            /\ currentState' = currentState
            /\ timeRemaining' = timeRemaining)]_vars

\* C4 amended: when the request of a submit fails, a notification is raised
\* and the failure changes neither the log (which keeps the user message the
\* submit appended before sending), nor the conversation state, nor the timer
\* and its tick handler.
C4_FailureChangesNothing ==
    [][(ev'.kind = "fail" /\ ev'.req[1].kind \in SubmitKinds)
        => (/\ ev'.toast = "request"
            /\ messages' = messages
            /\ currentState' = currentState
            /\ timeRemaining' = timeRemaining
            /\ activeTimer' = activeTimer
            /\ intervals' = intervals)]_vars

\* a submit's request failed while a countdown was running and the log still
\* ends with a user message
C4_Witness ==
    /\ ev.kind = "fail" /\ ev.req[1].kind \in SubmitKinds
    /\ timeRemaining # Null
    /\ Len(messages) > 0 /\ Last(messages).type = "user"

\* C5: at most one interval handler is live in every reachable state, one is
\* live exactly while a countdown is running, and it is the one activeTimer
\* names: a timer started over a running countdown leaves one handler, the
\* previous one being cleared before the new one is created.
C5_OneTickHandler ==
    /\ Cardinality(DOMAIN intervals) <= 1
    /\ (timeRemaining # Null) <=> (DOMAIN intervals # {})
    /\ DOMAIN intervals = IF activeTimer = Null THEN {} ELSE {activeTimer}

\* a timer was started over a running countdown with another remaining time
C5_Witness ==
    /\ ev.kind = "start" /\ ev.was # Null /\ ev.was # timeRemaining
    /\ Cardinality(DOMAIN intervals) = 1

\* C6: a countdown started with total > warningThreshold >= 1 that ran to
\* completion fired the warning exactly once, at remaining = warningThreshold.
C6_WarningAtThreshold ==
    (Completed /\ cd.total > cd.warn /\ cd.warn >= 1)
        => (cd.warnings = 1 /\ cd.warnedAt = {cd.warn})

\* C7: the tick that takes remaining from 1 to 0 fires the completion effect,
\* no other tick does, a countdown completes at most once, and after the
\* completing tick the timer is idle: no remaining time, no tick handler.
C7_CompletionOnce ==
    /\ cd.done <= 1
    /\ (ev.kind = "tick" /\ ev.was = 1)
          => (/\ ev.toast = "complete" /\ cd.done = 1
              /\ timeRemaining = Null /\ activeTimer = Null /\ DOMAIN intervals = {})
    /\ (ev.kind = "tick" /\ ev.was # 1) => (ev.toast # "complete" /\ cd.done = 0)

\* a countdown of more than one second ticked down to 0
C7_Witness == Completed /\ ev.was = 1 /\ cd.total > 1 /\ cd.done = 1 /\ timeRemaining = Null

\* C8, on the countdown that reaches 0 naturally: after the completing tick
\* the active parallel-step set is empty.
C8_ClearedOnCompletion == Completed => activeParallelSteps = <<>>

\* C9, where nothing prevents capture (the capability exists, no playback is
\* active, the engine is not winding down): after the completing tick capture
\* is active, whatever the conversation state.
C9_CaptureAfterCompletion ==
    (Completed /\ hasRecognition /\ ~isPlaying /\ engine \notin {"stopping", "ending"})
        => isListening

\* C10: a response whose timer data has duration <= 0 leaves the timer idle
\* with no tick handler, fires neither the completion nor any other timer
\* notification, and does not start capture.
C10_StopCancels ==
    [][ev'.kind = "stop"
        => (/\ timeRemaining' = Null /\ activeTimer' = Null /\ DOMAIN intervals' = {}
            /\ cd'.done = cd.done /\ ev'.toast = ""
            /\ (isListening' => isListening)
            /\ (engine' = "listening" => engine = "listening"))]_vars

\* a running countdown was stopped before it completed
C10_Witness ==
    /\ ev.kind = "stop" /\ ev.was # Null
    /\ timeRemaining = Null /\ cd.done = 0

\* C13: the MessageLog is append-only: a handler leaves the entries already
\* in the log where and as they were, appends at most one entry, at the end,
\* and a submit appends exactly one: N appends make a log of length N in
\* arrival order.
C13_AppendOnly ==
    [][/\ Len(messages') \in {Len(messages), Len(messages) + 1}
       /\ SubSeq(messages', 1, Len(messages)) = messages
       /\ (ev'.kind = "submit"
             => (Len(messages') = Len(messages) + 1 /\ Last(messages').type = "user"))]_vars

\* two appends, a submit and its response, made a log of two entries in that
\* order
C13_Witness ==
    /\ Len(messages) = 2
    /\ messages[1].type = "user" /\ messages[2].type = "assistant"

\* C14: a response changes the conversation state if and only if it names a
\* next-state that differs from the current one, and then to that state; when
\* it names the current state and has a text, the assistant message is
\* appended once, the state and its ref stay, and no request is sent.
C14_UnchangedNextState ==
    [][/\ ev'.resp # <<>>
          => /\ currentState' = IF ev'.resp[1].nextState \notin {"", currentState}
                                 THEN ev'.resp[1].nextState ELSE currentState
             /\ (ev'.resp[1].nextState = currentState /\ ev'.resp[1].text # "")
                   => /\ Len(messages') = Len(messages) + 1
                      /\ SubSeq(messages', 1, Len(messages)) = messages
                      /\ Last(messages').type = "assistant"
                      /\ Last(messages').content = ev'.resp[1].text
                      /\ currentStateRef' = currentStateRef
                      /\ Len(pending') = Len(pending) - 1
       /\ ev'.resp = <<>> => currentState' = currentState]_vars

\* the first response handled (the bootstrap request is still outstanding)
\* named initial_summary, the state the conversation was in, and its message
\* follows the user's in the log
C14_Witness ==
    /\ ev.kind = "reply" /\ ev.resp[1].nextState = "initial_summary"
    /\ currentState = "initial_summary"
    /\ Outstanding({"bootstrap"}) # {}
    /\ Len(messages) = 2 /\ messages[1].type = "user" /\ messages[2].type = "assistant"

\* C15: a response whose timer data cannot be parsed is handled to the end:
\* its text, if any, is appended as an assistant message without a timer, the
\* state transition is made, playback starts, the timer is left as it was and
\* no notification is raised.
C15_UnparsableTimerData ==
    [][(ev'.resp # <<>> /\ ev'.resp[1].timerData = "bad")
        => /\ messages' = IF ev'.resp[1].text # ""
                           THEN Append(messages, [type |-> "assistant",
                                                  content |-> ev'.resp[1].text,
                                                  timer |-> <<>>])
                           ELSE messages
           /\ currentState' = IF ev'.resp[1].nextState \notin {"", currentState}
                               THEN ev'.resp[1].nextState ELSE currentState
           /\ isPlaying' /\ audioPlaying'
           /\ timeRemaining' = timeRemaining /\ intervals' = intervals
           /\ ev'.toast = "" /\ ev'.kind = "reply"
           /\ Len(pending') = Len(pending) - 1]_vars

\* the first response handled (the bootstrap request is still outstanding)
\* had unparsable timer data: it moved the conversation to cooking, left its
\* message in the log and started playback
C15_Witness ==
    /\ ev.resp # <<>> /\ ev.resp[1].timerData = "bad" /\ ev.resp[1].nextState = "cooking"
    /\ currentState = "cooking"
    /\ Outstanding({"bootstrap"}) # {}
    /\ Len(messages) = 2 /\ messages[1].type = "user"
    /\ messages[2] = [type |-> "assistant", content |-> "ok", timer |-> <<>>]
    /\ isPlaying /\ audioPlaying

\* C16: when playback ends while a countdown is running, playback is marked
\* inactive and capture is not started.
C16_NoCaptureDuringTimer ==
    [][(ev'.kind = "ended" /\ timeRemaining # Null)
        => (~isPlaying' /\ isListening' = isListening /\ engine' = engine)]_vars

\* C17: when playback ends and no countdown is running, playback is marked
\* inactive; in initial_summary capture is left as it was, and in any other
\* state capture is active afterwards wherever it can be started (there is a
\* capture engine and it is not winding down from an earlier session).
C17_CaptureAfterPlayback ==
    [][(ev'.kind = "ended" /\ timeRemaining = Null)
        => /\ ~isPlaying'
           /\ currentStateRef = "initial_summary"
                 => (isListening' = isListening /\ engine' = engine)
           /\ (currentStateRef # "initial_summary" /\ hasRecognition
                  /\ engine \in {"idle", "listening"})
                 => (isListening' /\ engine' = "listening")]_vars

\* playback ended in cooking with no countdown and capture started
C17_Witness ==
    /\ ev.kind = "ended" /\ ev.was = Null /\ timeRemaining = Null
    /\ currentState = "cooking"
    /\ isListening /\ engine = "listening" /\ ~isPlaying

\* C18: a capture start requested while capture or playback is active changes
\* neither the engine nor the capturing flag, whichever call site requests it:
\* the microphone button, the playback-ended handler (which has just marked
\* playback inactive), the no-speech retry (capture has just ended) and the
\* timer completion.
C18_StartIsNoOp ==
    [][/\ (MicClick /\ ~isListening /\ isPlaying) => UNCHANGED <<isListening, engine>>
       /\ (ev'.kind = "ended" /\ isListening) => UNCHANGED <<isListening, engine>>
       /\ ((\E b \in BOOLEAN : RecognitionError("no-speech", b)) /\ isPlaying)
             => (~isListening' /\ engine' # "listening")
       /\ (ev'.kind = "tick" /\ ev'.toast = "complete" /\ (isListening \/ isPlaying))
             => UNCHANGED <<isListening, engine>>]_vars

\* C19: after a response has been handled, and with it play(payload) has
\* returned, playing is true and capturing is false.
C19_PlayStopsCapture ==
    [][ev'.resp # <<>> => (isPlaying' /\ ~isListening' /\ engine' # "listening")]_vars

\* C20: after a no-speech error capture is active again and no notification
\* was shown.
C20_NoSpeechRestarts ==
    [][(\E b \in BOOLEAN : RecognitionError("no-speech", b))
        => (ev'.toast = "" /\ isListening' /\ engine' = "listening")]_vars

(* ------------------- properties of the part_002 revision --------------- *)
\* the steps whose status the model follows
StepNumbers == {1}

\* the place of a status in the order not_started < in_progress < completed
Rank(status) == CHOOSE i \in 1..Len(StepStatus) : StepStatus[i] = status

\* C11: no step of a handler (a response with a timer snapshot, a fetched
\* recipe with its step-status map) lowers the status of a step: the status
\* after the step is at least the status before it.
C11_StatusNonDecreasing ==
    [][\A n \in StepNumbers :
          Rank(StatusOf(stepStatuses', n)) >= Rank(StatusOf(stepStatuses, n))]_vars

\* the response carries a timer snapshot for a step and a step-status map
\* that gives that step a status other than the inferred in_progress
Disagree(resp) ==
    /\ resp.timerData # <<>>
    /\ resp.timerData[1].json = "ok"
    /\ resp.timerData[1].step_statuses # <<>>
    /\ resp.timerData[1].step \in DOMAIN resp.timerData[1].step_statuses[1]
    /\ resp.timerData[1].step_statuses[1][resp.timerData[1].step] # "in_progress"

\* C12: after a response whose step-status map and timer snapshot disagree
\* about step N (and whose message is appended), the status of step N is the
\* one the map gives.
C12_ExplicitMapWins ==
    [][\A i \in 1..MaxPending, resp \in StatusResponses :
          (SubmitResponse(i, resp) /\ resp.text # "" /\ Disagree(resp))
              => StatusOf(stepStatuses', resp.timerData[1].step)
                     = resp.timerData[1].step_statuses[1][resp.timerData[1].step]]_vars

(* ------------------------ errors and bootstrap ------------------------- *)
\* C21: a capture error other than no-speech raises the speech notification
\* and leaves capture idle (capturing false, engine not capturing); capturing
\* becomes true again only in a step that invokes capture start: the
\* microphone button, the playback-ended handler, the timer completion or the
\* no-speech retry.
C21_FatalErrorLeavesIdle ==
    [][/\ (\E b \in BOOLEAN : RecognitionError("audio-capture", b))
             => (ev'.toast = "speech" /\ ~isListening' /\ engine' # "listening")
       /\ (~isListening /\ isListening')
             => \/ MicClick
                \/ ev'.kind = "ended"
                \/ (ev'.kind = "tick" /\ ev'.toast = "complete")
                \/ (ev'.kind = "error" /\ ev'.toast = "")]_vars

\* a fatal capture error has just been handled: the notification was raised
\* and capture is off while the engine winds down
C21_Witness ==
    ev.kind = "error" /\ ev.toast = "speech" /\ ~isListening /\ engine = "ending"

\* the entries of a log that are user turns
UserTurns(msgs) == {k \in 1..Len(msgs) : msgs[k].type = "user"}

\* C22: when the session has been created exactly one bootstrap request
\* (empty transcript, state initial_summary) is outstanding and the log is
\* empty; no later step sends another bootstrap request or any other request
\* with an empty transcript, and the step that settles the bootstrap request
\* adds no user message to the log.
C22_BootstrapOnce ==
    /\ Cardinality(Outstanding({"bootstrap"})) = 1
    /\ \A k \in Outstanding({"bootstrap"}) :
          pending[k].transcript = "" /\ pending[k].state = "initial_summary"
    /\ messages = <<>>
    /\ [][/\ Cardinality({k \in 1..Len(pending') :
                              pending'[k].kind = "bootstrap"
                              \/ (pending'[k].kind \in DialogueKinds
                                  /\ pending'[k].transcript = "")})
               <= Cardinality(Outstanding({"bootstrap"}))
           /\ (Outstanding({"bootstrap"}) # {}
                  /\ {k \in 1..Len(pending') : pending'[k].kind = "bootstrap"} = {})
                 => Cardinality(UserTurns(messages')) = Cardinality(UserTurns(messages))]_vars

\* the bootstrap response has been handled: its narration is the only entry
\* of the log and playback has begun
C22_Witness ==
    /\ Outstanding({"bootstrap"}) = {}
    /\ Len(messages) = 1 /\ messages[1].type = "assistant"
    /\ ev.resp # <<>> /\ isPlaying

\* C24: a step taken in the state cooking ends in the state cooking, whatever
\* the response it handles.
C24_CookingAbsorbing ==
    [][currentState = "cooking" => currentState' = "cooking"]_vars

\* C30: a response whose timer data parses but has no numeric duration
\* leaves the countdown and its interval as they were, and the assistant
\* message it appends carries no timer.
C30_MalformedTimerDropped ==
    [][(ev'.resp # <<>> /\ ev'.resp[1].timerData = "malformed")
        => /\ timeRemaining' = timeRemaining
           /\ intervals' = intervals
           /\ ev'.resp[1].text # "" => Last(messages').timer = <<>>]_vars

\* C26: in a browser without speech recognition capturing is false and the
\* engine idle in every reachable state; a typed submit still marks playback
\* active, logs the user turn and sends its request, and the response to it
\* is still played and its text logged as an assistant turn.
C26_NoCapture ==
    /\ [](~hasRecognition => (~isListening /\ engine = "idle"))
    /\ [][/\ (~hasRecognition /\ ev'.kind = "submit")
                => (/\ Len(pending') = Len(pending) + 1
                    /\ Last(pending').kind = "text"
                    /\ Last(pending').transcript = Last(messages').content
                    /\ Last(messages').type = "user"
                    /\ isPlaying')
          /\ (~hasRecognition /\ ev'.resp # <<>>)
                => (/\ Len(pending') = Len(pending) - 1
                    /\ isPlaying' /\ audioPlaying'
                    /\ (ev'.resp[1].text # ""
                          => (/\ Last(messages').type = "assistant"
                              /\ Last(messages').content = ev'.resp[1].text)))]_vars

\* without speech recognition a typed submit has been answered: the log holds
\* the user turn and the reply, which is being played
C26_Witness ==
    /\ ~hasRecognition
    /\ Len(messages) = 2 /\ messages[1].type = "user" /\ messages[2].type = "assistant"
    /\ ev.resp # <<>> /\ isPlaying /\ audioPlaying
    /\ Outstanding(SubmitKinds) = {}

(* --------------------------- recipe reference -------------------------- *)
\* C23: a response that carries an updated recipe identifier leaves the
\* recipe reference equal to it, and the reference changes in no other step:
\* it keeps the value until a response carries another one, with and without
\* the onRecipeUpdate prop.
C23_RecipeReferenceKept ==
    [][/\ (ev'.resp # <<>> /\ ev'.resp[1].updatedRecipeId # "")
             => currentRecipeId' = ev'.resp[1].updatedRecipeId
       /\ currentRecipeId' # currentRecipeId
             => (ev'.resp # <<>> /\ ev'.resp[1].updatedRecipeId = currentRecipeId')]_vars

\* C29: the request a voice or text submit sends carries the recipe reference
\* and the conversation state the session has when it is sent.
C29_RequestCarriesCurrent ==
    [][ev'.kind = "submit"
        => /\ Last(pending').recipeId = currentRecipeId
           /\ Last(pending').state = currentState]_vars

(* ------------------- step processing and display ----------------------- *)
\* C25: in the processed steps, whenever a step A lists a step B in its
\* parallel_with, B has a parallel_with that contains A.
C25_ParallelSymmetric ==
    (input.kind = "steps" /\ output # <<>>)
        => \A a, b \in 1..Len(output[1]) :
              (output[1][a].parallel_with # <<>>
                  /\ Includes(output[1][a].parallel_with[1], output[1][b].step))
              => (output[1][b].parallel_with # <<>>
                  /\ Includes(output[1][b].parallel_with[1], output[1][a].step))

\* the tasks of the timer of a message, <<>> when it has none
TasksOf(message) ==
    IF message.timer # <<>> /\ message.timer[1].parallel_tasks # <<>>
    THEN message.timer[1].parallel_tasks[1] ELSE <<>>

\* the parallel-tasks section of a rendered message, <<>> when there is none
SectionOf(bubble) == IF bubble.timer # <<>> THEN bubble.timer[1].tasks ELSE <<>>

\* the task lines of a section, in the order they are displayed
LinesOf(section) == <<section[1].recommended>> \o section[1].others

\* C27: a rendered message has a parallel-tasks section exactly when its
\* timer carries at least one parallel task, and then every task of the list
\* has a line with its step number and its instruction.
C27_TasksShownIffPresent ==
    (input.kind = "message" /\ output # <<>>)
        => LET tasks == TasksOf(input.message)
               section == SectionOf(output[1])
           IN /\ (section # <<>>) <=> (Len(tasks) >= 1)
              /\ section # <<>>
                    => \A k \in 1..Len(tasks) :
                          \E n \in 1..Len(LinesOf(section)) :
                             /\ LinesOf(section)[n].step_number = tasks[k].step_number
                             /\ LinesOf(section)[n].instruction = tasks[k].instruction

\* a message whose timer carries two tasks has been rendered with its section
C27_Witness ==
    /\ input.kind = "message" /\ output # <<>>
    /\ Len(TasksOf(input.message)) = 2
    /\ SectionOf(output[1]) # <<>>
    /\ Len(SectionOf(output[1])[1].others) = 1

\* C28: the time displayed for the k-th task of a section, whose estimated
\* time is s seconds, is "<s div 60>m <s mod 60>s" when s >= 60 and "<s>s"
\* when s < 60; 120 is displayed as "2m 0s" and 60 as "1m 0s".
C28_TimeFormat ==
    (input.kind = "message" /\ output # <<>> /\ SectionOf(output[1]) # <<>>)
        => \A k \in 1..Len(TasksOf(input.message)) :
              LET s == TasksOf(input.message)[k].estimated_time
                  shown == LinesOf(SectionOf(output[1]))[k].time
              IN /\ s >= 60 => shown = ToString(s \div 60) \o "m " \o ToString(s % 60) \o "s"
                 /\ s < 60 => shown = ToString(s) \o "s"
                 /\ s = 120 => shown = "2m 0s"
                 /\ s = 60 => shown = "1m 0s"

\* a section has been rendered whose recommended task takes 120 seconds and
\* whose other task takes less than a minute
C28_Witness ==
    /\ input.kind = "message" /\ output # <<>> /\ SectionOf(output[1]) # <<>>
    /\ Len(TasksOf(input.message)) = 2
    /\ TasksOf(input.message)[1].estimated_time = 120
    /\ TasksOf(input.message)[2].estimated_time = 45
    /\ SectionOf(output[1])[1].recommended.time = "2m 0s"
    /\ SectionOf(output[1])[1].others[1].time = "45s"

(* ------------------- bootstrap and the two submit paths ---------------- *)
\* C34: the bootstrap response is applied as a submit response is: timer data
\* it carries sets the countdown and is attached to the assistant message,
\* and an updated recipe identifier it carries becomes the recipe reference
\* (where the onRecipeUpdate prop lets the reference keep it).
C34_BootstrapSamePipeline ==
    [][\A i \in 1..MaxPending, resp \in RecipeResponses :
          BootstrapResponse(i, resp)
              => /\ timeRemaining'
                      = TimerSignal(ParseTimer("voice", resp.timerData), timeRemaining)
                 /\ (resp.text # ""
                        => Last(messages').timer = ParseTimer("voice", resp.timerData))
                 /\ ((resp.updatedRecipeId # "" /\ hasOnRecipeUpdate)
                        => currentRecipeId' = resp.updatedRecipeId)]_vars

\* C36: the assistant message appended for a response is the same whether the
\* request was typed or spoken: its timer is the one the voice path builds
\* from the timer data and the one the text path builds from it.
C36_TypedEqualsSpoken ==
    [][\A i \in 1..MaxPending, resp \in Responses :
          (SubmitResponse(i, resp) /\ resp.text # "")
              => /\ Last(messages').timer = ParseTimer("voice", resp.timerData)
                 /\ Last(messages').timer = ParseTimer("text", resp.timerData)]_vars

(* ------------------------- switching the recipe ------------------------ *)
\* the requests of kind k that await their response
Awaiting(pend, k) == {n \in 1..Len(pend) : pend[n].kind = k}

\* C38: a response that carries nothing but an updated recipe identifier, and
\* the steps that settle a fetch of the recipe steps or the parallel-task
\* initialisation that follows it, leave the log, the conversation state, the
\* countdown and its interval as they were; no step sends a bootstrap request.
C38_SwitchFrame ==
    [][/\ (/\ ev'.resp # <<>>
           /\ ev'.resp[1].updatedRecipeId # ""
           /\ ev'.resp[1].nextState = "" /\ ev'.resp[1].text = ""
           /\ ev'.resp[1].timerData = "none")
             => UNCHANGED <<messages, currentState, timeRemaining, intervals>>
       /\ (\/ Cardinality(Awaiting(pending', "steps")) < Cardinality(Awaiting(pending, "steps"))
           \/ Cardinality(Awaiting(pending', "init")) # Cardinality(Awaiting(pending, "init")))
             => UNCHANGED <<messages, currentState, timeRemaining, intervals>>
       /\ Cardinality(Awaiting(pending', "bootstrap"))
             <= Cardinality(Awaiting(pending, "bootstrap"))]_vars

\* the recipe reference has just been switched while a countdown was running
\* and the log was not empty, and the bootstrap request was settled before
C38_Witness ==
    /\ ev.resp # <<>> /\ ev.resp[1].updatedRecipeId = "r2"
    /\ ev.resp[1].nextState = "" /\ ev.resp[1].text = "" /\ ev.resp[1].timerData = "none"
    /\ currentRecipeId = "r2"
    /\ timeRemaining # Null /\ intervals # <<>>
    /\ Len(messages) >= 1
    /\ Awaiting(pending, "bootstrap") = {}
    /\ Awaiting(pending, "steps") # {}

(* ------------------------------ countdown ------------------------------ *)
\* C33: a response that starts a countdown of total T > 0 leaves the remaining
\* time at T; a tick of a running countdown lowers the remaining time by
\* exactly 1 and completes it exactly when it was 1, so that the remaining
\* time stays within 1..T and T ticks complete it; and while the handler is
\* fired fairly the remaining time does not stay at any value forever.
C33_CountdownRuns ==
    /\ [][/\ ev'.kind = "start" => (cd'.total > 0 /\ timeRemaining' = cd'.total)
          /\ (ev'.kind = "tick" /\ timeRemaining # Null)
                => /\ timeRemaining' = IF timeRemaining = 1 THEN Null ELSE timeRemaining - 1
                   /\ (ev'.toast = "complete") <=> (timeRemaining = 1)]_vars
    /\ [](timeRemaining # Null => timeRemaining \in 1..cd.total)
    /\ \A n \in 1..MaxDuration : (timeRemaining = n) ~> (timeRemaining # n)

\* a countdown of two seconds has just completed on the tick from 1
C33_Witness ==
    /\ cd.total = 2 /\ cd.done = 1
    /\ ev.kind = "tick" /\ ev.toast = "complete" /\ ev.was = 1
    /\ timeRemaining = Null /\ intervals = <<>>

(* ------------------------------ step progress -------------------------- *)
\* C37: appending a user message, whatever its text, leaves the completed
\* steps and the current step number as they were.
C37_UserTextIgnored ==
    (input.kind = "log" /\ output # <<>> /\ input.type = "user")
        => /\ output[1].completedSteps = input.completedSteps
           /\ output[1].currentStepNumber = input.currentStepNumber

(* ----------------------------- object URLs ----------------------------- *)
\* C31: at most one object URL is unreleased at any time (a play replacing a
\* previous resource releases the previous one first), and the URL is
\* released once its playback has ended naturally.  Violated: a second
\* response leaves the URL of the first one allocated, and the 'ended'
\* handler releases nothing.
C31_OneObjectUrl ==
    /\ ~objectUrls.stale
    /\ ev.kind = "ended" => ~objectUrls.src

(* ------------------------- errors and reset --------------------------- *)
\* C32: after any error (failed request, capture error, playback that does not
\* start) the controller returns to idle; playing never stays true without
\* playback in progress.  As a property of finite runs: while the component
\* is mounted and playing is true, either the audio element is playing (its
\* 'ended' event will clear the flag) or a submit is outstanding (its
\* response or its failure will).  Violated: play() is refused, playing
\* stays true and nothing is left that clears it.
C32_PlayingHasCause ==
    (mounted /\ isPlaying) => (audioPlaying \/ Outstanding(SubmitKinds) # {})

\* C35: after a reset the discarded session has no further effect: no
\* interval handler is left, and a response to a request that was in flight
\* starts no playback, no capture and no timer.  Violated: the late response
\* is played on the audio element the discarded session created.
C35_DiscardedSessionSilent ==
    ~mounted => /\ intervals = <<>>
                /\ ~audioPlaying
                /\ engine = "idle"
====
